---- MODULE Spec2Model ----
(***************************************************************************)
(* Model of hosts/dragon/dynamic_led.py: the thermal LED control loop.     *)
(*                                                                         *)
(*   while True:                                                           *)
(*     status = json.loads(subprocess.check_output([... 'status' ...]))    *)
(*     liquid_temp = status[0]['status'][0]['value']                       *)
(*     color = '0080ff' if liquid_temp < 40 else 'ff0000'                  *)
(*     subprocess.run([... 'set', 'led', 'color', 'fixed', color])         *)
(*     time.sleep(60)                                                      *)
(*                                                                         *)
(* Temperatures are kept in tenths of a degree Celsius, so that readings   *)
(* such as 39.9 and 40.1 are distinct from 40.0.                           *)
(***************************************************************************)
EXTENDS Integers, Sequences, FiniteSets, TLC

VARIABLES
    pc,           \* position of the single thread of control
    status,       \* Python variable `status` (parsed JSON document)
    liquid_temp,  \* Python variable `liquid_temp`
    color,        \* Python variable `color`
    exc,          \* the uncaught exception that ended the process, or "none"
    calls,        \* the most recent external invocations and sleeps, oldest first
    returncode,   \* exit status of the external process that completed last
    elapsed,      \* seconds since the last set-color invocation was started
    proc          \* what became of the external process started last

vars == <<pc, status, liquid_temp, color, exc, calls, returncode, elapsed, proc>>

----------------------------------------------------------------------------
(* Bounds of the model *)

TempSpread == 1     \* readings range over Threshold-TempSpread .. Threshold+TempSpread
MaxExit == 1        \* exit statuses range over 0 .. MaxExit
MaxCmdSecs == 1     \* an external command runs for 0 .. MaxCmdSecs seconds
MaxCalls == 7       \* number of most recent invocations remembered in `calls`

(* Program constants *)

Threshold == 40     \* `liquid_temp < 40`, degrees Celsius
SleepSeconds == 60  \* `time.sleep(60)`
BLUE == "0080ff"
RED == "ff0000"

----------------------------------------------------------------------------
(* JSON values as Python sees them after json.loads.  A number is held in  *)
(* tenths: JNum(399) is 39.9.                                              *)

Tenths(n) == n * 10    \* the int n on the scale of JNum

JNum(n) == [t |-> "num", n |-> n]
JBool(b) == [t |-> "bool", b |-> b]
JStr(s) == [t |-> "str", s |-> s]
JList(s) == [t |-> "list", items |-> s]
JDict(f) == [t |-> "dict", d |-> f]
JNull == [t |-> "null"]
JNaN == [t |-> "nan"]            \* the float NaN (json.loads accepts `NaN`)
Unbound == [t |-> "unbound"]     \* a Python name not yet assigned

Temps == (Tenths(Threshold) - TempSpread) .. (Tenths(Threshold) + TempSpread)

Entry(v) == JDict([value |-> v])
Block(entries) == JDict([status |-> JList(entries)])

\* Values the first entry's `value` field can hold.
Values == {JNum(n) : n \in Temps} \cup {JNull, JStr(<<"h", "i">>), JBool(TRUE), JNaN}

\* Documents the status query can print.
Docs ==
    {JList(<<>>), JDict(<<>>), JNull, JStr(<<>>), JStr(<<"x">>), JNum(Tenths(Threshold)),
     JList(<<JDict(<<>>)>>),
     JList(<<JDict([status |-> JDict(<<>>)])>>),
     JList(<<Block(<<>>)>>),
     JList(<<Block(<<JDict(<<>>)>>)>>),
     JList(<<Block(<<JNull>>)>>)}
    \cup {JList(<<Block(<<Entry(v)>>)>>) : v \in Values}
    \cup {JList(<<Block(<<Entry(JNum(n)), Entry(JNum(2 * Tenths(Threshold) - n))>>),
                  Block(<<Entry(JNum(2 * Tenths(Threshold) - n))>>)>>) : n \in Temps}

\* What the status query writes to standard output: JSON text of a document,
\* or text that is not JSON.
Stdouts == {[json |-> TRUE, doc |-> d] : d \in Docs} \cup {[json |-> FALSE, doc |-> JNull]}

----------------------------------------------------------------------------
(* Results of Python expressions: a value, or a raised exception *)

Ok(v) == [exc |-> "none", val |-> v]
Err(e) == [exc |-> e, val |-> Unbound]

\* json.loads(text)
json_loads(out) == IF out.json THEN Ok(out.doc) ELSE Err("JSONDecodeError")

\* v[0]
Index0(v) ==
    CASE v.t = "list" -> IF Len(v.items) > 0 THEN Ok(v.items[1]) ELSE Err("IndexError")
      [] v.t = "str"  -> IF Len(v.s) > 0 THEN Ok(JStr(<<v.s[1]>>)) ELSE Err("IndexError")
      [] v.t = "dict" -> Err("KeyError")
      [] OTHER        -> Err("TypeError")

\* v[k] for a string key k
Key(v, k) ==
    CASE v.t = "dict" -> IF k \in DOMAIN v.d THEN Ok(v.d[k]) ELSE Err("KeyError")
      [] OTHER        -> Err("TypeError")

\* r[0] / r[k] applied to the result of a sub-expression
ThenIndex0(r) == IF r.exc = "none" THEN Index0(r.val) ELSE r
ThenKey(r, k) == IF r.exc = "none" THEN Key(r.val, k) ELSE r

\* status[0]['status'][0]['value']
ExtractTemp(doc) == ThenKey(ThenIndex0(ThenKey(Index0(doc), "status")), "value")

\* v < n for an int n; Python compares bool as the int 0 or 1, and every
\* comparison with NaN is False.
LessThan(v, n) ==
    CASE v.t = "num"  -> Ok(v.n < Tenths(n))
      [] v.t = "bool" -> Ok((IF v.b THEN 1 ELSE 0) < n)
      [] v.t = "nan"  -> Ok(FALSE)
      [] OTHER        -> Err("TypeError")

\* Variant: the comparison is `<=`, so exactly 40.0 is BLUE.
DecideColorInclusiveBlue(temp) ==
    CASE temp.t = "num"  -> Ok(IF temp.n <= Tenths(Threshold) THEN BLUE ELSE RED)
      [] temp.t = "bool" -> Ok(BLUE)
      [] OTHER           -> Err("TypeError")

\* '0080ff' if liquid_temp < 40 else 'ff0000'
DecideColor(temp) ==
    LET r == LessThan(temp, Threshold)
    IN  IF r.exc # "none" THEN r ELSE Ok(IF r.val THEN BLUE ELSE RED)

----------------------------------------------------------------------------
(* The record of invocations *)

Call(cmd, c, temp) == [cmd |-> cmd, color |-> c, temp |-> temp]

\* Remember a call, keeping only the MaxCalls most recent ones.
Record(log, call) ==
    LET s == Append(log, call)
    IN  IF Len(s) > MaxCalls THEN Tail(s) ELSE s

\* An uncaught exception ends the process.
Raise(e) == pc' = "terminated" /\ exc' = e

----------------------------------------------------------------------------
Init ==
    /\ pc = "query"
    /\ status = Unbound
    /\ liquid_temp = Unbound
    /\ color = "unbound"
    /\ exc = "none"
    /\ calls = <<>>
    /\ returncode = 0
    /\ elapsed = 0
    /\ proc = "none"

\* Line 6: subprocess.check_output starts the status query.
QueryInvoke ==
    /\ pc = "query"
    /\ calls' = Record(calls, Call("status", "", Unbound))
    /\ \E found \in BOOLEAN :
          IF found THEN pc' = "query_wait" /\ exc' = exc /\ proc' = "running"
                   ELSE Raise("FileNotFoundError") /\ proc' = "notfound"
    /\ UNCHANGED <<status, liquid_temp, color, returncode, elapsed>>

\* The status query process stops making progress.
QueryHang ==
    /\ pc = "query_wait"
    /\ proc = "running"
    /\ proc' = "hung"
    /\ UNCHANGED <<pc, status, liquid_temp, color, exc, calls, returncode, elapsed>>

\* Variant: the exit status of the status query is not checked (as with
\* subprocess.run(...).stdout); the output is parsed whatever the status.
QueryReturnUnchecked ==
    /\ pc = "query_wait"
    /\ proc = "running"
    /\ proc' = "exited"
    /\ \E rc \in 0 .. MaxExit, out \in Stdouts, d \in 0 .. MaxCmdSecs :
          /\ returncode' = rc
          /\ elapsed' = elapsed + d
          /\ LET r == json_loads(out)
             IN  IF r.exc # "none"
                   THEN Raise(r.exc) /\ status' = status
                   ELSE pc' = "extract" /\ exc' = exc /\ status' = r.val
    /\ UNCHANGED <<liquid_temp, color, calls>>

\* Variant: check_output is given a timeout, so a query that never returns
\* is abandoned with TimeoutExpired.
QueryReturnTimeout ==
    /\ pc = "query_wait"
    /\ proc \in {"running", "hung"}
    /\ IF proc = "hung"
         THEN /\ Raise("TimeoutExpired")
              /\ proc' = "exited"
              /\ UNCHANGED <<status, returncode, elapsed>>
         ELSE /\ proc' = "exited"
              /\ \E rc \in 0 .. MaxExit, out \in Stdouts, d \in 0 .. MaxCmdSecs :
                    /\ returncode' = rc
                    /\ elapsed' = elapsed + d
                    /\ IF rc # 0
                         THEN Raise("CalledProcessError") /\ status' = status
                         ELSE LET r == json_loads(out)
                              IN  IF r.exc # "none"
                                    THEN Raise(r.exc) /\ status' = status
                                    ELSE pc' = "extract" /\ exc' = exc /\ status' = r.val
    /\ UNCHANGED <<liquid_temp, color, calls>>

\* Line 6: the status query exits; check_output raises on a nonzero status,
\* otherwise json.loads parses the output and `status` is assigned.
QueryReturn ==
    /\ pc = "query_wait"
    /\ proc = "running"
    /\ proc' = "exited"
    /\ \E rc \in 0 .. MaxExit, out \in Stdouts, d \in 0 .. MaxCmdSecs :
          /\ returncode' = rc
          /\ elapsed' = elapsed + d
          /\ IF rc # 0
               THEN Raise("CalledProcessError") /\ status' = status
               ELSE LET r == json_loads(out)
                    IN  IF r.exc # "none"
                          THEN Raise(r.exc) /\ status' = status
                          ELSE pc' = "extract" /\ exc' = exc /\ status' = r.val
    /\ UNCHANGED <<liquid_temp, color, calls>>

\* Variant: a missing block, entry or field yields a default reading of 0.0
\* instead of an exception.
ExtractWithDefault ==
    /\ pc = "extract"
    /\ LET r == ExtractTemp(status)
       IN  liquid_temp' = IF r.exc # "none" THEN JNum(0) ELSE r.val
    /\ pc' = "decide"
    /\ UNCHANGED <<status, color, exc, calls, returncode, elapsed, proc>>

\* Line 7: liquid_temp = status[0]['status'][0]['value']
Extract ==
    /\ pc = "extract"
    /\ LET r == ExtractTemp(status)
       IN  IF r.exc # "none"
             THEN Raise(r.exc) /\ liquid_temp' = liquid_temp
             ELSE pc' = "decide" /\ exc' = exc /\ liquid_temp' = r.val
    /\ UNCHANGED <<status, color, calls, returncode, elapsed, proc>>

\* Variant: hysteresis; once RED, the color goes back to BLUE only when
\* the reading is a full degree below the threshold.
DecideHysteresis ==
    /\ pc = "decide"
    /\ LET r == IF color = RED THEN LessThan(liquid_temp, Threshold - 1)
                               ELSE LessThan(liquid_temp, Threshold)
       IN  IF r.exc # "none"
             THEN Raise(r.exc) /\ color' = color
             ELSE pc' = "apply" /\ exc' = exc /\ color' = IF r.val THEN BLUE ELSE RED
    /\ UNCHANGED <<status, liquid_temp, calls, returncode, elapsed, proc>>

\* Line 8: color = '0080ff' if liquid_temp < 40 else 'ff0000'
Decide ==
    /\ pc = "decide"
    /\ LET r == DecideColor(liquid_temp)
       IN  IF r.exc # "none"
             THEN Raise(r.exc) /\ color' = color
             ELSE pc' = "apply" /\ exc' = exc /\ color' = r.val
    /\ UNCHANGED <<status, liquid_temp, calls, returncode, elapsed, proc>>

\* Variant: the set-color command is started without waiting for it
\* (subprocess.Popen), and the loop goes straight on to the sleep.
SetInvokeNoWait ==
    /\ pc = "apply"
    /\ calls' = Record(calls, Call("set", color, liquid_temp))
    /\ elapsed' = 0
    /\ \E found \in BOOLEAN :
          IF found THEN pc' = "sleep" /\ exc' = exc /\ proc' = "running"
                   ELSE Raise("FileNotFoundError") /\ proc' = "notfound"
    /\ UNCHANGED <<status, liquid_temp, color, returncode>>

\* Variant: the set-color command is skipped when the color is the one
\* applied by the previous set-color.
SetInvokeIfChanged ==
    /\ pc = "apply"
    /\ LET sets == {i \in 1 .. Len(calls) : calls[i].cmd = "set"}
           same == sets # {} /\ \E i \in sets : (\A j \in sets : j <= i) /\ calls[i].color = color
       IN  IF same
             THEN /\ pc' = "sleep"
                  /\ UNCHANGED <<exc, calls, elapsed, proc>>
             ELSE /\ calls' = Record(calls, Call("set", color, liquid_temp))
                  /\ elapsed' = 0
                  /\ \E found \in BOOLEAN :
                        IF found THEN pc' = "apply_wait" /\ exc' = exc /\ proc' = "running"
                                 ELSE Raise("FileNotFoundError") /\ proc' = "notfound"
    /\ UNCHANGED <<status, liquid_temp, color, returncode>>

\* Line 9: subprocess.run starts the set-color command.
SetInvoke ==
    /\ pc = "apply"
    /\ calls' = Record(calls, Call("set", color, liquid_temp))
    /\ elapsed' = 0
    /\ \E found \in BOOLEAN :
          IF found THEN pc' = "apply_wait" /\ exc' = exc /\ proc' = "running"
                   ELSE Raise("FileNotFoundError") /\ proc' = "notfound"
    /\ UNCHANGED <<status, liquid_temp, color, returncode>>

\* The set-color process stops making progress.
SetHang ==
    /\ pc = "apply_wait"
    /\ proc = "running"
    /\ proc' = "hung"
    /\ UNCHANGED <<pc, status, liquid_temp, color, exc, calls, returncode, elapsed>>

\* Variant: subprocess.run(..., check=True); a nonzero exit status raises.
SetReturnChecked ==
    /\ pc = "apply_wait"
    /\ proc = "running"
    /\ proc' = "exited"
    /\ \E rc \in 0 .. MaxExit, d \in 0 .. MaxCmdSecs :
          /\ returncode' = rc
          /\ elapsed' = elapsed + d
          /\ IF rc # 0 THEN Raise("CalledProcessError")
                       ELSE pc' = "sleep" /\ exc' = exc
    /\ UNCHANGED <<status, liquid_temp, color, calls>>

\* Line 9: the set-color command exits; subprocess.run is called without
\* check=True, so the exit status is returned and discarded.
SetReturn ==
    /\ pc = "apply_wait"
    /\ proc = "running"
    /\ proc' = "exited"
    /\ \E rc \in 0 .. MaxExit, d \in 0 .. MaxCmdSecs :
          /\ returncode' = rc
          /\ elapsed' = elapsed + d
    /\ pc' = "sleep"
    /\ UNCHANGED <<status, liquid_temp, color, exc, calls>>

\* Variant: the loop body runs once (`if` for `while`); the program ends
\* normally after the sleep.
SleepThenExit ==
    /\ pc = "sleep"
    /\ calls' = Record(calls, Call("sleep", "", Unbound))
    /\ elapsed' = elapsed + SleepSeconds
    /\ pc' = "terminated"
    /\ UNCHANGED <<status, liquid_temp, color, exc, returncode, proc>>

\* Variant: time.sleep(6).
SleepShort ==
    /\ pc = "sleep"
    /\ calls' = Record(calls, Call("sleep", "", Unbound))
    /\ elapsed' = elapsed + 6
    /\ pc' = "query"
    /\ UNCHANGED <<status, liquid_temp, color, exc, returncode, proc>>

\* Line 10: time.sleep(60), then back to the top of the loop.
Sleep ==
    /\ pc = "sleep"
    /\ calls' = Record(calls, Call("sleep", "", Unbound))
    /\ elapsed' = elapsed + SleepSeconds
    /\ pc' = "query"
    /\ UNCHANGED <<status, liquid_temp, color, exc, returncode, proc>>

Next ==
    \/ QueryInvoke
    \/ QueryHang
    \/ QueryReturn
    \/ Extract
    \/ Decide
    \/ SetInvoke
    \/ SetHang
    \/ SetReturn
    \/ Sleep

Spec == Init /\ [][Next]_vars

\* The interpreter keeps executing the program: whenever a step of the loop
\* can be taken, one eventually is.
FairSpec == Spec /\ WF_vars(Next)

TypeOK ==
    /\ pc \in {"query", "query_wait", "extract", "decide", "apply", "apply_wait",
               "sleep", "terminated"}
    /\ color \in {"unbound", BLUE, RED}
    /\ returncode \in 0 .. MaxExit
    /\ elapsed \in 0 .. (SleepSeconds + 2 * MaxCmdSecs)
    /\ Len(calls) <= MaxCalls
    /\ proc \in {"none", "notfound", "running", "hung", "exited"}
----------------------------------------------------------------------------
(* Vocabulary of the properties *)

\* Positions of the set-color invocations remembered in `calls`.
SetIdx == {i \in 1 .. Len(calls) : calls[i].cmd = "set"}

LastCall == calls[Len(calls)]

\* The external command invoked last: "status", "set", or "none".
LastCommand ==
    LET idx == {i \in 1 .. Len(calls) : calls[i].cmd # "sleep"}
    IN  IF idx = {} THEN "none"
        ELSE calls[CHOOSE i \in idx : \A j \in idx : j <= i].cmd

\* A number or bool as a reading in tenths of a degree (bool is 0 or 1 degree).
Reading(v) == IF v.t = "num" THEN v.n ELSE IF v.b THEN 10 ELSE 0

\* The reading is below 40.0 / is 40.0 or above (NaN is neither).
Below40(v) == v.t \in {"num", "bool"} /\ Reading(v) < 400
AtLeast40(v) == v.t \in {"num", "bool"} /\ Reading(v) >= 400

\* The document has a first block with a first entry whose value is a number.
NumericDoc(doc) ==
    /\ doc.t = "list" /\ Len(doc.items) > 0
    /\ LET b == doc.items[1]
       IN  /\ b.t = "dict" /\ "status" \in DOMAIN b.d
           /\ LET st == b.d.status
              IN  /\ st.t = "list" /\ Len(st.items) > 0
                  /\ LET e == st.items[1]
                     IN  /\ e.t = "dict" /\ "value" \in DOMAIN e.d
                         /\ e.d.value.t \in {"num", "bool", "nan"}

\* The document has no first block, or its first block has no status field
\* or no first entry, or its first entry has no value field.
MalformedDoc(doc) ==
    /\ doc.t = "list"
    /\ \/ Len(doc.items) = 0
       \/ LET b == doc.items[1]
          IN  /\ b.t = "dict"
              /\ \/ "status" \notin DOMAIN b.d
                 \/ LET st == b.d.status
                    IN  /\ st.t = "list"
                        /\ \/ Len(st.items) = 0
                           \/ LET e == st.items[1]
                              IN  e.t = "dict" /\ "value" \notin DOMAIN e.d

\* blocks[0].status[0].value of a well-formed document
FirstValue(doc) == doc.items[1].d.status.items[1].d.value

\* Positions i < j of two set-color invocations with none in between.
ConsecutiveSets == {p \in SetIdx \X SetIdx :
                      p[1] < p[2] /\ \A k \in SetIdx : ~(p[1] < k /\ k < p[2])}

QueryNotFound == LastCommand = "status" /\ proc = "notfound"
QueryExitNonzero == LastCommand = "status" /\ proc = "exited" /\ returncode # 0
SetNotFound == LastCommand = "set" /\ proc = "notfound"
SetExitNonzero == LastCommand = "set" /\ proc = "exited" /\ returncode # 0

----------------------------------------------------------------------------
\* C1: every color passed to set-color is "0080ff" when the reading taken
\* from the status query is below 40.0 and "ff0000" when it is 40.0 or
\* above (exactly 40.0 gives "ff0000"); no other color is ever passed, and
\* the reading is the first value of the first block of the query's output.
C1_ColorByThreshold ==
    /\ \A i \in SetIdx :
          /\ calls[i].temp.t \in {"num", "bool", "nan"}
          /\ calls[i].color \in {"0080ff", "ff0000"}
          /\ Below40(calls[i].temp) => calls[i].color = "0080ff"
          /\ AtLeast40(calls[i].temp) => calls[i].color = "ff0000"
    /\ pc = "apply_wait" => LastCall.temp = FirstValue(status)

\* A set-color invoked with a reading of exactly 40.0 and the color RED.
C1_Witness ==
    \E i \in SetIdx : calls[i].temp = JNum(400) /\ calls[i].color = "ff0000"

\* C2 as stated: a failure of either invocation (nonzero exit, or not
\* found) ends the loop.
C2_AnyFailureTerminal ==
    (QueryNotFound \/ QueryExitNonzero \/ SetNotFound \/ SetExitNonzero)
        => pc = "terminated"

\* C2 amended: a failure of the status query (nonzero exit or not found) and
\* a set-color command that cannot be found end the loop with the exception
\* uncaught and nothing invoked afterwards; a nonzero exit of the set-color
\* command is not an error: the loop goes on to the wait and the next query.
C2_FailureTerminalExceptSetExit ==
    /\ QueryExitNonzero =>
          pc = "terminated" /\ exc = "CalledProcessError" /\ LastCall.cmd = "status"
    /\ QueryNotFound =>
          pc = "terminated" /\ exc = "FileNotFoundError" /\ LastCall.cmd = "status"
    /\ SetNotFound =>
          pc = "terminated" /\ exc = "FileNotFoundError" /\ LastCall.cmd = "set"
    /\ SetExitNonzero => pc \in {"sleep", "query"} /\ exc = "none"

\* The set-color command exited nonzero and the loop is about to query again.
C2_Witness == SetExitNonzero /\ pc = "query" /\ LastCall.cmd = "sleep"

\* C3: when the parsed output has zero device blocks, or its first block
\* has no status field or zero status entries, or the first entry has no
\* value field, extraction raises (IndexError or KeyError), the process
\* terminates, and the status query stays the last thing it invoked: no
\* set-color, wait or further query.
C3_MalformedOutputTerminal ==
    (MalformedDoc(status) /\ pc # "extract") =>
        /\ pc = "terminated"
        /\ exc \in {"IndexError", "KeyError"}
        /\ LastCall.cmd = "status"

\* Scenario D: the output `[]` ended the process with IndexError.
C3_Witness == status = JList(<<>>) /\ pc = "terminated" /\ exc = "IndexError"

\* C4: when the status query exits nonzero, the process terminates on
\* CalledProcessError; that query stays the last invocation (no set-color in
\* the cycle, no retry), and it was itself not a retry of a failed query.
C4_QueryFailureBlocksApply ==
    QueryExitNonzero =>
        /\ pc = "terminated"
        /\ exc = "CalledProcessError"
        /\ LastCall.cmd = "status"
        /\ Len(calls) > 1 => calls[Len(calls) - 1].cmd = "sleep"

\* The query of a later cycle (after a set-color) exited nonzero.
C4_Witness == QueryExitNonzero /\ pc = "terminated" /\ SetIdx # {}

\* C5: the invocations follow the fixed cycle status query, set-color, wait:
\* a set-color directly follows the status query of its cycle, which has
\* exited with status 0; the wait directly follows a set-color that has
\* exited; a query is the first invocation or directly follows a wait.
C5_CycleOrder ==
    /\ \A i \in 2 .. Len(calls) :
          /\ calls[i].cmd = "set" => calls[i - 1].cmd = "status"
          /\ calls[i].cmd = "sleep" => calls[i - 1].cmd = "set"
          /\ calls[i].cmd = "status" => calls[i - 1].cmd = "sleep"
    /\ (calls # <<>> /\ Len(calls) < MaxCalls) => calls[1].cmd = "status"
    /\ pc = "query" => calls = <<>> \/ (LastCall.cmd = "sleep" /\ proc = "exited")
    /\ pc \in {"query_wait", "extract", "decide"} => LastCall.cmd = "status"
    /\ pc = "apply" => LastCall.cmd = "status" /\ proc = "exited" /\ returncode = 0
    /\ pc = "apply_wait" => LastCall.cmd = "set"
    /\ pc = "sleep" => LastCall.cmd = "set" /\ proc = "exited"

\* Two full cycles and the query of a third are on record.
C5_Witness ==
    /\ Len(calls) = 7
    /\ [i \in 1 .. 7 |-> calls[i].cmd] =
          <<"status", "set", "sleep", "status", "set", "sleep", "status">>
    /\ pc = "apply"

\* C6: the color applied depends on the reading of its own cycle only: any
\* two set-color invocations made with the same reading pass the same
\* color, whatever came before them, and two consecutive ones whose readings
\* lie on opposite sides of 40.0 pass different colors.
C6_NoHysteresis ==
    /\ \A i \in SetIdx, j \in SetIdx :
          calls[i].temp = calls[j].temp => calls[i].color = calls[j].color
    /\ \A p \in ConsecutiveSets :
          (\/ Below40(calls[p[1]].temp) /\ AtLeast40(calls[p[2]].temp)
           \/ AtLeast40(calls[p[1]].temp) /\ Below40(calls[p[2]].temp))
              => calls[p[1]].color # calls[p[2]].color

\* Readings 39.9, 40.0, 39.9 in three consecutive cycles: BLUE, RED, BLUE.
C6_Witness ==
    \E i \in SetIdx :
        /\ i + 6 \in SetIdx
        /\ calls[i].temp = JNum(399) /\ calls[i].color = "0080ff"
        /\ calls[i + 3].temp = JNum(400) /\ calls[i + 3].color = "ff0000"
        /\ calls[i + 6].temp = JNum(399) /\ calls[i + 6].color = "0080ff"

\* C7: a cycle whose query printed a document with a numeric first value
\* invokes set-color with the decided color exactly once before it waits,
\* also when the color is the one applied in the previous cycle: extraction
\* and decision do not raise on such a document, past the apply step the
\* last invocation is this cycle's set-color, every wait directly follows a
\* set-color, and two set-color invocations never share a cycle.
C7_AlwaysReapplies ==
    /\ exc \in {"IndexError", "KeyError", "TypeError"} => ~NumericDoc(status)
    /\ pc \in {"apply", "apply_wait", "sleep"} => NumericDoc(status)
    /\ pc \in {"apply_wait", "sleep"} => LastCall = Call("set", color, liquid_temp)
    /\ \A i \in 1 .. Len(calls) :
          calls[i].cmd = "sleep" /\ i > 1 => calls[i - 1].cmd = "set"
    /\ \A p \in ConsecutiveSets :
          \E k \in (p[1] + 1) .. (p[2] - 1) : calls[k].cmd = "status"
    /\ (pc = "query" /\ Len(calls) > 1) =>
          calls[Len(calls) - 1] = Call("set", color, liquid_temp)

\* Two consecutive cycles applied the same color.
C7_Witness ==
    \E p \in ConsecutiveSets : calls[p[1]].color = calls[p[2]].color

\* C8: the process terminates only with an uncaught exception and, as long
\* as it neither terminates nor blocks on a process that never returns, it
\* invokes the status query and set-color again and again.
C8_RunsForever ==
    /\ [](pc = "terminated" =>
            exc \in {"FileNotFoundError", "CalledProcessError", "JSONDecodeError",
                     "IndexError", "KeyError", "TypeError"})
    /\ ([](pc # "terminated" /\ proc # "hung")
          => ([]<>(pc = "query_wait") /\ []<>(pc = "apply_wait")))

\* A second cycle has reached its set-color.
C8_Witness == pc = "apply_wait" /\ \E i \in 1 .. Len(calls) : calls[i].cmd = "sleep"

\* C9: two consecutive set-color invocations are separated by exactly one
\* wait and then one status query; the wait follows the set-color of its
\* cycle; and at least 60 seconds have passed since the previous set-color
\* was started when the next one is about to start.
C9_WaitBetweenApplies ==
    /\ \A p \in ConsecutiveSets :
          /\ p[2] = p[1] + 3
          /\ calls[p[1] + 1].cmd = "sleep"
          /\ calls[p[1] + 2].cmd = "status"
    /\ \A i \in 1 .. Len(calls) :
          calls[i].cmd = "sleep" /\ i > 1 => calls[i - 1].cmd = "set"
    /\ (Len(calls) < MaxCalls /\ SetIdx # {}) =>
          \A i \in 1 .. Len(calls) :
              calls[i].cmd = "sleep" => \E k \in SetIdx : k < i
    /\ (pc = "apply" /\ SetIdx # {}) => elapsed >= 60

\* A second set-color is about to start, 60 seconds or more after the first.
C9_Witness == pc = "apply" /\ SetIdx # {} /\ elapsed >= 60

\* C10: while the external process never returns, the controller stays
\* blocked in that invocation: it takes no step at all, it has not
\* terminated and it has raised nothing.
C10_HangStalls ==
    /\ [](proc = "hung" => pc \in {"query_wait", "apply_wait"} /\ exc = "none")
    /\ [][proc = "hung" => UNCHANGED vars]_vars

\* The status query of a second cycle hangs.
C10_Witness == proc = "hung" /\ pc = "query_wait" /\ SetIdx # {}
====
